---- MODULE Spec2Model ----
(***************************************************************************)
(* Model of the .li domain scanner (src/src/main.rs).                      *)
(*                                                                         *)
(* Strings are sequences of one-character strings.  One run of             *)
(* LiDomainScanner::run is modelled from the call of scan_domains on: the  *)
(* dispatch loop, one spawned task per candidate, the semaphore, the two   *)
(* shared collections, the join and save_results.  The peer of every       *)
(* connection (the whois server) is the environment: it refuses, breaks    *)
(* the transport, hangs, or answers with a response text.  The candidate   *)
(* generation (generate_domains, generate_repeat_pattern_domains and the   *)
(* stream run builds from them) is modelled on variables of its own, one   *)
(* step per iteration of the stack loop.                                   *)
(***************************************************************************)
EXTENDS Integers, Sequences, FiniteSets, Bags, TLC

(***************************************************************************)
(* Bounds of the model.                                                    *)
(***************************************************************************)
\* longest candidate stream handed to scan_domains
MaxLen == 2
\* largest worker count (Args.workers: usize, claims are about W >= 1)
MaxWorkers == 2
\* from_reply_code is applied to every code in -MaxCode..MaxCode
MaxCode == 100
\* letters (and digits) of the reduced alphabet the generators of lengths 2-4
\* are run over; length 1 and the repeat patterns also run over the full one
MaxSymbols == 2

\* i32 range of reply_code (DomainResult.reply_code: i32)
I32Max == 2147483647
I32Min == (0 - I32Max) - 1

None == "none"

\* a task that has built no DomainResult
NoResult ==
    [domain |-> <<>>, status |-> None, reply_code |-> 0, message |-> <<>>]

\* a report file that was not written, and one that was
NoFile == [written |-> FALSE, content |-> <<>>]

File(content) == [written |-> TRUE, content |-> content]

(***************************************************************************)
(* Text helpers: what str::trim, str::split_once and str::parse::<i32> do. *)
(***************************************************************************)
Digits == <<"0", "1", "2", "3", "4", "5", "6", "7", "8", "9">>

IsDigit(c) == \E i \in 1..Len(Digits) : Digits[i] = c

DigitValue(c) == (CHOOSE i \in 1..Len(Digits) : Digits[i] = c) - 1

\* char::is_whitespace on the characters a response can hold
IsWhitespace(c) == c \in {" ", "\n", "\t", "\r"}

RECURSIVE TrimStart(_)
TrimStart(s) ==
    IF s # <<>> /\ IsWhitespace(Head(s)) THEN TrimStart(Tail(s)) ELSE s

RECURSIVE TrimEnd(_)
TrimEnd(s) ==
    IF s # <<>> /\ IsWhitespace(s[Len(s)])
    THEN TrimEnd(SubSeq(s, 1, Len(s) - 1))
    ELSE s

\* mutant: only the leading whitespace is removed (trim_start for trim)
TrimStartOnly(s) == TrimStart(s)

\* str::trim: leading and trailing whitespace removed
Trim(s) == TrimEnd(TrimStart(s))

Contains(s, c) == \E i \in 1..Len(s) : s[i] = c

\* mutant: split at the LAST separator (rsplit_once for split_once)
SplitAtLast(s, sep) ==
    IF Contains(s, sep)
    THEN LET i == CHOOSE k \in 1..Len(s) :
                      s[k] = sep /\ \A j \in (k + 1)..Len(s) : s[j] # sep
         IN  [found |-> TRUE,
              left  |-> SubSeq(s, 1, i - 1),
              right |-> SubSeq(s, i + 1, Len(s))]
    ELSE [found |-> FALSE, left |-> s, right |-> <<>>]

\* str::split_once(':'): split at the FIRST separator, None when absent
SplitOnce(s, sep) ==
    IF Contains(s, sep)
    THEN LET i == CHOOSE k \in 1..Len(s) :
                      s[k] = sep /\ \A j \in 1..(k - 1) : s[j] # sep
         IN  [found |-> TRUE,
              left  |-> SubSeq(s, 1, i - 1),
              right |-> SubSeq(s, i + 1, Len(s))]
    ELSE [found |-> FALSE, left |-> s, right |-> <<>>]

\* the digit loop of i32::from_str: checked multiply by 10, then checked add
\* (or subtract, for a negative number); acc is the value so far
RECURSIVE ParseDigits(_, _, _)
ParseDigits(s, acc, negative) ==
    IF s = <<>> THEN [ok |-> TRUE, val |-> acc]
    ELSE LET d   == DigitValue(Head(s))
             mag == IF negative THEN 0 - acc ELSE acc
             fits == \/ mag < I32Max \div 10
                     \/ /\ mag = I32Max \div 10
                        /\ d <= (I32Max % 10) + (IF negative THEN 1 ELSE 0)
         IN  IF fits
             THEN ParseDigits(Tail(s),
                              IF negative THEN acc * 10 - d ELSE acc * 10 + d,
                              negative)
             ELSE [ok |-> FALSE, val |-> 0]

\* str::parse::<i32>: optional sign, then at least one digit, nothing else;
\* a value outside the i32 range is an error
ParseI32(s) ==
    LET signed == s # <<>> /\ Head(s) \in {"+", "-"}
        body   == IF signed THEN Tail(s) ELSE s
        wellformed == body # <<>> /\ \A i \in 1..Len(body) : IsDigit(body[i])
    IN  IF wellformed
        THEN ParseDigits(body, 0, signed /\ Head(s) = "-")
        ELSE [ok |-> FALSE, val |-> 0]

\* the sentinel of line 141 (unwrap_or) and line 142 (no separator)
ParseFailCode == -99

(***************************************************************************)
(* DomainStatus and the status table.                                      *)
(***************************************************************************)
Available == "Available"
Registered == "Registered"
RateLimited == "RateLimited"
Error == "Error"

DomainStatus == {Available, Registered, RateLimited, Error}

\* mutant: the sign of the rate-limit code is lost
from_reply_code_unsigned(code) ==
    CASE code = 1  -> Available
      [] code = 0  -> Registered
      [] code = 95 -> RateLimited
      [] OTHER     -> Error

from_reply_code(code) ==
    CASE code = 1   -> Available
      [] code = 0   -> Registered
      [] code = -95 -> RateLimited
      [] OTHER      -> Error

(***************************************************************************)
(* The part of query_domain_check that follows the read: trim, split,      *)
(* parse, classify, build the DomainResult (the timestamp is left out: no  *)
(* operation of the program reads it back).                                *)
(***************************************************************************)
\* format!("{}.li", domain)
FormatDomain(label) == label \o <<".", "l", "i">>

\* lines 138-143: (reply_code, message) of a response text
ParseResponse(text) ==
    LET response == Trim(text)
        parts    == SplitOnce(response, ":")
        parsed   == ParseI32(parts.left)
    IN  IF parts.found
        THEN [reply_code |-> IF parsed.ok THEN parsed.val ELSE ParseFailCode,
              message    |-> Trim(parts.right)]
        ELSE [reply_code |-> ParseFailCode, message |-> response]

\* lines 138-158: the DomainResult of a response text
MakeResult(label, text) ==
    LET p == ParseResponse(text)
    IN  [domain     |-> FormatDomain(label),
         status     |-> from_reply_code(p.reply_code),
         reply_code |-> p.reply_code,
         message    |-> p.message]

(***************************************************************************)
(* HashSet<String> as a bag in which insert keeps every value once;        *)
(* Vec<DomainResult> as a sequence.                                        *)
(***************************************************************************)
\* mutant: the collection is a Vec and every insert pushes
VecPush(set, value) == set (+) SetToBag({value})

HashSetInsert(set, value) ==
    IF BagIn(value, set) THEN set ELSE set (+) SetToBag({value})

\* byte order of the characters a domain can hold (str's Ord)
CharOrder ==
    <<"-", ".", "0", "1", "2", "3", "4", "5", "6", "7", "8", "9",
      "a", "b", "c", "d", "e", "f", "g", "h", "i", "j", "k", "l", "m",
      "n", "o", "p", "q", "r", "s", "t", "u", "v", "w", "x", "y", "z">>

CharRank(c) == CHOOSE i \in 1..Len(CharOrder) : CharOrder[i] = c

RECURSIVE StrLess(_, _)
StrLess(a, b) ==
    IF b = <<>> THEN FALSE
    ELSE IF a = <<>> THEN TRUE
    ELSE IF Head(a) = Head(b) THEN StrLess(Tail(a), Tail(b))
    ELSE CharRank(Head(a)) < CharRank(Head(b))

\* lines 310-311: the members of the set, collected and sorted
RECURSIVE SortedDomains(_)
SortedDomains(S) ==
    IF S = {} THEN <<>>
    ELSE LET least == CHOOSE x \in S : \A y \in S \ {x} : StrLess(x, y)
         IN  <<least>> \o SortedDomains(S \ {least})

(***************************************************************************)
(* The peer of a connection.  A conforming server formats a signed integer *)
(* code and a message as "<code>:<message>\n"; any text can arrive.        *)
(***************************************************************************)
RECURSIVE NatToStr(_)
NatToStr(n) ==
    IF n < 10 THEN <<Digits[n + 1]>>
    ELSE NatToStr(n \div 10) \o <<Digits[(n % 10) + 1]>>

\* decimal text of an i32 (the magnitude of I32Min is not an i32)
IntToStr(n) ==
    IF n >= 0 THEN NatToStr(n)
    ELSE IF n = I32Min
    THEN <<"-">> \o NatToStr(I32Max \div 10) \o <<Digits[(I32Max % 10) + 2]>>
    ELSE <<"-">> \o NatToStr(0 - n)

FormatReply(code, msg) == IntToStr(code) \o <<":">> \o msg \o <<"\n">>

CodedReply(code, msg) ==
    [kind |-> "coded", code |-> code, text |-> FormatReply(code, msg)]

TextReply(text) == [kind |-> "text", code |-> ParseFailCode, text |-> text]

Hang == [kind |-> "hang", code |-> ParseFailCode, text |-> <<>>]

\* the connection is refused; the transport breaks on the write, on the read
Refused == [kind |-> "refused", code |-> ParseFailCode, text |-> <<>>]

WriteError == [kind |-> "write_error", code |-> ParseFailCode, text |-> <<>>]

ReadError == [kind |-> "read_error", code |-> ParseFailCode, text |-> <<>>]

\* the peer has done nothing that ended the probe yet
NoReply == [kind |-> "none", code |-> ParseFailCode, text |-> <<>>]

\* what a peer can send before it closes the connection
ServerReplies ==
    { CodedReply(1, <<"o", "k">>),
      CodedReply(0, <<"t", "a", "k", "e", "n">>),
      CodedReply(-95, <<"s", "l", "o", "w", ":", "5">>),
      CodedReply(42, <<"x">>),
      TextReply(<<"g", "a", "r", "b", "a", "g", "e">>),
      TextReply(<<"g", "a", "r", "b", "a", "g", "e", "\n">>),
      TextReply(<<"4", "2", "9", "4", "9", "6", "7", "2", "9", "7", ":", "o", "k">>),
      TextReply(<<>>) }

Labels == {<<"a">>, <<"b">>}

RECURSIVE SeqsUpTo(_, _)
SeqsUpTo(S, n) ==
    IF n = 0 THEN {<<>>}
    ELSE LET shorter == SeqsUpTo(S, n - 1)
         IN  shorter \cup {Append(s, x) : s \in shorter, x \in S}

\* the candidate streams scan_domains is called with: it takes any
\* Vec<String>, so a label may occur twice
Streams == SeqsUpTo(Labels, MaxLen) \ {<<>>}

(***************************************************************************)
(* State of one run.                                                       *)
(***************************************************************************)
VARIABLES
    workers,            \* LiDomainScanner.workers
    domains,            \* the Vec<String> scan_domains is called with
    permits,            \* free permits of the semaphore of line 261
    main_pc,            \* where run / scan_domains stands
    next_idx,           \* index of the candidate the for loop of line 264 is at
    task_pc,            \* task_pc[i]: where the task spawned for domains[i] stands
    peer,               \* peer[i]: what the peer of task i's connection did
    task_result,        \* task_result[i]: the DomainResult task i built
    available_domains,  \* LiDomainScanner.available_domains
    results,            \* LiDomainScanner.results
    available_file,     \* lines of available_domains.txt after its header
    results_file,       \* records of scan_results.json
    completion_order,   \* the tasks in the order their JoinHandles became ready
    code_in,            \* argument of a direct call of from_reply_code
    status_out,         \* what that call returned
    gen_entry,          \* the function entered: run, or a generator called directly
    alphabet,           \* how many letters and digits `chars` is built from
    full_scan,          \* Args.full_scan
    letters_only,       \* Args.letters_only
    gen_length,         \* `length` of generate_domains / of the loop of line 335
    gen_stack,          \* `stack` of generate_domains (top at the end)
    gen_domains,        \* `domains`, the Vec a generator returns
    all_domains,        \* `all_domains` of run
    gen_pc              \* where the generation stands

scan_vars ==
    <<workers, domains, permits, main_pc, next_idx, task_pc, peer,
      task_result, available_domains, results, available_file, results_file,
      completion_order>>

call_vars == <<code_in, status_out>>

gen_vars ==
    <<gen_entry, alphabet, full_scan, letters_only, gen_length, gen_stack,
      gen_domains, all_domains, gen_pc>>

vars == <<scan_vars, call_vars, gen_vars>>

\* no generation is under way (the candidate stream is already built)
GenIdle ==
    /\ gen_entry = None
    /\ alphabet = [letters |-> 0, digits |-> 0]
    /\ full_scan = FALSE
    /\ letters_only = FALSE
    /\ gen_length = 0
    /\ gen_stack = <<>>
    /\ gen_domains = <<>>
    /\ all_domains = <<>>
    /\ gen_pc = "idle"

Tasks == 1..Len(domains)

\* a task that holds a permit (lines 270-280)
HoldsPermit(i) == task_pc[i] \in {"connect", "write", "read", "insert", "report"}

\* a task that holds a permit and is inside query_domain_check (line 271)
InFlight(i) == task_pc[i] \in {"connect", "write", "read", "insert"}

\* the JoinHandle of the task is ready: Ok(result) or Err(JoinError)
Completed(i) == task_pc[i] \in {"finished", "panicked"}

\* LiDomainScanner::new, then run up to the call of scan_domains
Init ==
    /\ workers \in 1..MaxWorkers
    /\ domains \in Streams
    /\ permits = workers
    /\ main_pc = "spawn"
    /\ next_idx = 1
    /\ task_pc = [i \in 1..Len(domains) |-> "unspawned"]
    /\ peer = [i \in 1..Len(domains) |-> NoReply]
    /\ task_result = [i \in 1..Len(domains) |-> NoResult]
    /\ available_domains = EmptyBag
    /\ results = <<>>
    /\ available_file = NoFile
    /\ results_file = NoFile
    /\ completion_order = <<>>
    /\ code_in = 0
    /\ status_out = None
    /\ GenIdle

(***************************************************************************)
(* The dispatch loop of scan_domains (lines 264-285).                      *)
(***************************************************************************)
\* mutant: the dispatch loop waits for a free permit and takes it, the task
\* starts with the permit in hand
SpawnAcquires ==
    /\ main_pc = "spawn"
    /\ permits > 0
    /\ permits' = permits - 1
    /\ task_pc' = [task_pc EXCEPT ![next_idx] = "connect"]
    /\ main_pc' = "sleep"
    /\ UNCHANGED <<workers, domains, next_idx, peer, task_result,
                   available_domains, results, available_file, results_file,
                   call_vars, gen_vars, completion_order>>

\* mutant: the next candidate is dispatched without the delay
SpawnNoDelay ==
    /\ main_pc = "spawn"
    /\ task_pc' = [task_pc EXCEPT ![next_idx] = "acquire"]
    /\ next_idx' = next_idx + 1
    /\ main_pc' = IF next_idx < Len(domains) THEN "spawn" ELSE "join"
    /\ UNCHANGED <<workers, domains, permits, peer, task_result,
                   available_domains, results, available_file, results_file,
                   call_vars, gen_vars, completion_order>>

\* lines 265-283: spawn the task of the next candidate
Spawn ==
    /\ main_pc = "spawn"
    /\ task_pc' = [task_pc EXCEPT ![next_idx] = "acquire"]
    /\ main_pc' = "sleep"
    /\ UNCHANGED <<workers, domains, permits, next_idx, peer, task_result,
                   available_domains, results, available_file, results_file,
                   call_vars, gen_vars, completion_order>>

\* line 284: the delay is over; next iteration, or leave the loop
Wake ==
    /\ main_pc = "sleep"
    /\ next_idx' = next_idx + 1
    /\ main_pc' = IF next_idx < Len(domains) THEN "spawn" ELSE "join"
    /\ UNCHANGED <<workers, domains, permits, task_pc, peer, task_result,
                   available_domains, results, available_file, results_file,
                   call_vars, gen_vars, completion_order>>

(***************************************************************************)
(* One spawned task (lines 269-281).                                       *)
(***************************************************************************)
\* mutant: the task goes on without waiting for a free permit
AcquireNoWait(i) ==
    /\ task_pc[i] = "acquire"
    /\ permits' = permits - 1
    /\ task_pc' = [task_pc EXCEPT ![i] = "connect"]
    /\ UNCHANGED <<workers, domains, main_pc, next_idx, peer, task_result,
                   available_domains, results, available_file, results_file,
                   call_vars, gen_vars, completion_order>>

\* line 270: sem.acquire().await
Acquire(i) ==
    /\ task_pc[i] = "acquire"
    /\ permits > 0
    /\ permits' = permits - 1
    /\ task_pc' = [task_pc EXCEPT ![i] = "connect"]
    /\ UNCHANGED <<workers, domains, main_pc, next_idx, peer, task_result,
                   available_domains, results, available_file, results_file,
                   call_vars, gen_vars, completion_order>>

\* mutant: the permit of a task that panics is not given back
PanicKeepsPermit(i) ==
    /\ task_pc' = [task_pc EXCEPT ![i] = "panicked"]
    /\ permits' = permits
    /\ completion_order' = Append(completion_order, i)

\* query_domain_check returned Err: the unwrap of line 271 panics, the
\* unwinding drops _permit, the JoinHandle yields Err(JoinError)
Panic(i) ==
    /\ task_pc' = [task_pc EXCEPT ![i] = "panicked"]
    /\ permits' = permits + 1
    /\ completion_order' = Append(completion_order, i)

\* lines 127-130: connect, set_nodelay
ConnectOk(i) ==
    /\ task_pc[i] = "connect"
    /\ task_pc' = [task_pc EXCEPT ![i] = "write"]
    /\ UNCHANGED <<workers, domains, permits, main_pc, next_idx, peer,
                   task_result, available_domains, results, available_file,
                   results_file, call_vars, gen_vars, completion_order>>

\* lines 127-130 with `?`: the connection is refused
ConnectFail(i) ==
    /\ task_pc[i] = "connect"
    /\ Panic(i)
    /\ peer' = [peer EXCEPT ![i] = Refused]
    /\ UNCHANGED <<workers, domains, main_pc, next_idx, task_result,
                   available_domains, results, available_file, results_file,
                   call_vars, gen_vars>>

\* lines 132-133: the query line is written
WriteOk(i) ==
    /\ task_pc[i] = "write"
    /\ task_pc' = [task_pc EXCEPT ![i] = "read"]
    /\ UNCHANGED <<workers, domains, permits, main_pc, next_idx, peer,
                   task_result, available_domains, results, available_file,
                   results_file, call_vars, gen_vars, completion_order>>

\* line 133 with `?`: transport error on the write
WriteFail(i) ==
    /\ task_pc[i] = "write"
    /\ Panic(i)
    /\ peer' = [peer EXCEPT ![i] = WriteError]
    /\ UNCHANGED <<workers, domains, main_pc, next_idx, task_result,
                   available_domains, results, available_file, results_file,
                   call_vars, gen_vars>>

\* lines 135-145: the peer sent `reply` and closed; the response is parsed
\* and classified
ReadReply(i, reply) ==
    /\ task_pc[i] = "read"
    /\ peer[i] = NoReply
    /\ peer' = [peer EXCEPT ![i] = reply]
    /\ LET r == MakeResult(domains[i], reply.text)
       IN  /\ task_result' = [task_result EXCEPT ![i] = r]
           /\ task_pc' = [task_pc EXCEPT ![i] =
                  IF r.status = Available THEN "insert" ELSE "report"]
    /\ UNCHANGED <<workers, domains, permits, main_pc, next_idx,
                   available_domains, results, available_file, results_file,
                   call_vars, gen_vars, completion_order>>

\* line 137 with `?`: transport error on the read
ReadFail(i) ==
    /\ task_pc[i] = "read"
    /\ peer[i] = NoReply
    /\ Panic(i)
    /\ peer' = [peer EXCEPT ![i] = ReadError]
    /\ UNCHANGED <<workers, domains, main_pc, next_idx, task_result,
                   available_domains, results, available_file, results_file,
                   call_vars, gen_vars>>

\* line 137: the peer accepted the connection and neither replies nor
\* closes; read_to_string has no deadline and stays pending
PeerHangs(i) ==
    /\ task_pc[i] = "read"
    /\ peer[i] = NoReply
    /\ peer' = [peer EXCEPT ![i] = Hang]
    /\ UNCHANGED <<workers, domains, permits, main_pc, next_idx, task_pc,
                   task_result, available_domains, results, available_file,
                   results_file, call_vars, gen_vars, completion_order>>

\* mutant: the bare label is inserted, without the ".li" suffix
InsertLabel(i) ==
    /\ task_pc[i] = "insert"
    /\ available_domains' = HashSetInsert(available_domains, domains[i])
    /\ task_pc' = [task_pc EXCEPT ![i] = "report"]
    /\ UNCHANGED <<workers, domains, permits, main_pc, next_idx, peer,
                   task_result, results, available_file, results_file,
                   call_vars, gen_vars, completion_order>>

\* lines 147-150: lock the set and insert the domain
Insert(i) ==
    /\ task_pc[i] = "insert"
    /\ available_domains' =
           HashSetInsert(available_domains, FormatDomain(domains[i]))
    /\ task_pc' = [task_pc EXCEPT ![i] = "report"]
    /\ UNCHANGED <<workers, domains, permits, main_pc, next_idx, peer,
                   task_result, results, available_file, results_file,
                   call_vars, gen_vars, completion_order>>

\* lines 273-281: print, advance the bar, return the result; _permit drops
Finish(i) ==
    /\ task_pc[i] = "report"
    /\ task_pc' = [task_pc EXCEPT ![i] = "finished"]
    /\ permits' = permits + 1
    /\ completion_order' = Append(completion_order, i)
    /\ UNCHANGED <<workers, domains, main_pc, next_idx, peer, task_result,
                   available_domains, results, available_file, results_file,
                   call_vars, gen_vars>>

(***************************************************************************)
(* The end of scan_domains, save_results and the end of run.               *)
(***************************************************************************)
\* mutant: the results are pushed in the order the tasks completed
PushedInCompletionOrder(i) ==
    IF \E j \in 1..Len(domains) : task_pc[j] = "panicked" THEN <<>>
    ELSE [k \in 1..Len(completion_order) |-> task_result[completion_order[k]]]

\* mutant: the loop stops one task short
RECURSIVE PushedFromSkipLast(_)
PushedFromSkipLast(i) ==
    IF i >= Len(domains) \/ task_pc[i] = "panicked" THEN <<>>
    ELSE <<task_result[i]>> \o PushedFromSkipLast(i + 1)

\* the results the loop of lines 289-291 pushes, from task i on: it stops
\* at the first Err(JoinError), whose unwrap panics
RECURSIVE PushedFrom(_)
PushedFrom(i) ==
    IF i > Len(domains) \/ task_pc[i] = "panicked" THEN <<>>
    ELSE <<task_result[i]>> \o PushedFrom(i + 1)

\* mutant: the results are collected without waiting for the tasks
JoinAllNoWait ==
    /\ main_pc = "join"
    /\ results' = results \o PushedFrom(1)
    /\ main_pc' = IF \E i \in Tasks : task_pc[i] = "panicked"
                  THEN "panicked" ELSE "returned"
    /\ UNCHANGED <<workers, domains, permits, next_idx, task_pc, peer,
                   task_result, available_domains, available_file,
                   results_file, call_vars, gen_vars, completion_order>>

\* lines 287-294: join_all is ready once every task has completed; the
\* results are pushed in task order
JoinAll ==
    /\ main_pc = "join"
    /\ \A i \in Tasks : Completed(i)
    /\ results' = results \o PushedFrom(1)
    /\ main_pc' = IF \E i \in Tasks : task_pc[i] = "panicked"
                  THEN "panicked" ELSE "returned"
    /\ UNCHANGED <<workers, domains, permits, next_idx, task_pc, peer,
                   task_result, available_domains, available_file,
                   results_file, call_vars, gen_vars, completion_order>>

\* lines 298-326: both collections are read, then both files are written
SaveResults ==
    /\ main_pc = "returned"
    /\ available_file' = File(SortedDomains(BagToSet(available_domains)))
    /\ results_file' = File(results)
    /\ main_pc' = "saved"
    /\ UNCHANGED <<workers, domains, permits, next_idx, task_pc, peer,
                   task_result, available_domains, results, call_vars, gen_vars,
                   completion_order>>

\* lines 316-317 with `?`: the first file cannot be written
SaveFailsFirst ==
    /\ main_pc = "returned"
    /\ main_pc' = "save_failed"
    /\ UNCHANGED <<workers, domains, permits, next_idx, task_pc, peer,
                   task_result, available_domains, results, available_file,
                   results_file, call_vars, gen_vars, completion_order>>

\* lines 323-324 with `?`: the second file cannot be written
SaveFailsSecond ==
    /\ main_pc = "returned"
    /\ available_file' = File(SortedDomains(BagToSet(available_domains)))
    /\ main_pc' = "save_failed"
    /\ UNCHANGED <<workers, domains, permits, next_idx, task_pc, peer,
                   task_result, available_domains, results, results_file,
                   call_vars, gen_vars, completion_order>>

\* lines 349-354: the summary is printed, run returns Ok
RunEnd ==
    /\ main_pc = "saved"
    /\ main_pc' = "done"
    /\ UNCHANGED <<workers, domains, permits, next_idx, task_pc, peer,
                   task_result, available_domains, results, available_file,
                   results_file, call_vars, gen_vars, completion_order>>

MainStep ==
    \/ Spawn
    \/ Wake
    \/ JoinAll
    \/ SaveResults
    \/ SaveFailsFirst
    \/ SaveFailsSecond
    \/ RunEnd

TaskStep(i) ==
    \/ Acquire(i)
    \/ ConnectOk(i)
    \/ ConnectFail(i)
    \/ WriteOk(i)
    \/ WriteFail(i)
    \/ \E reply \in ServerReplies : ReadReply(i, reply)
    \/ ReadFail(i)
    \/ PeerHangs(i)
    \/ Insert(i)
    \/ Finish(i)

Next ==
    \/ Spawn
    \/ Wake
    \/ JoinAll
    \/ SaveResults
    \/ SaveFailsFirst
    \/ SaveFailsSecond
    \/ RunEnd
    \/ \E i \in Tasks : Acquire(i)
    \/ \E i \in Tasks : ConnectOk(i)
    \/ \E i \in Tasks : ConnectFail(i)
    \/ \E i \in Tasks : WriteOk(i)
    \/ \E i \in Tasks : WriteFail(i)
    \/ \E i \in Tasks : \E reply \in ServerReplies : ReadReply(i, reply)
    \/ \E i \in Tasks : ReadFail(i)
    \/ \E i \in Tasks : PeerHangs(i)
    \/ \E i \in Tasks : Insert(i)
    \/ \E i \in Tasks : Finish(i)

Spec == Init /\ [][Next]_vars

\* the runtime runs every task that can take a step and the main future
\* whenever it can; a connect, write or read that the peer lets end, ends
FairSpec ==
    /\ Init
    /\ [][Next]_vars
    /\ WF_vars(MainStep)
    /\ \A i \in 1..MaxLen : WF_vars(i \in Tasks /\ TaskStep(i))

(***************************************************************************)
(* Direct calls of from_reply_code.                                        *)
(***************************************************************************)
CodeInputs == (-MaxCode..MaxCode) \cup {I32Min, I32Max}

CallInit ==
    /\ workers = 1
    /\ domains = <<<<"a">>>>
    /\ permits = 1
    /\ main_pc = "spawn"
    /\ next_idx = 1
    /\ task_pc = [i \in 1..1 |-> "unspawned"]
    /\ peer = [i \in 1..1 |-> NoReply]
    /\ task_result = [i \in 1..1 |-> NoResult]
    /\ available_domains = EmptyBag
    /\ results = <<>>
    /\ available_file = NoFile
    /\ results_file = NoFile
    /\ completion_order = <<>>
    /\ code_in \in CodeInputs
    /\ status_out = None
    /\ GenIdle

CallFromReplyCode ==
    /\ status_out = None
    /\ status_out' = from_reply_code(code_in)
    /\ UNCHANGED <<scan_vars, code_in, gen_vars>>

CallNext == CallFromReplyCode

CallSpec == CallInit /\ [][CallNext]_vars

(***************************************************************************)
(* Candidate generation: is_valid_domain, generate_domains,                *)
(* generate_repeat_pattern_domains and the stream that run builds.         *)
(***************************************************************************)
LowerLetters ==
    <<"a", "b", "c", "d", "e", "f", "g", "h", "i", "j", "k", "l", "m",
      "n", "o", "p", "q", "r", "s", "t", "u", "v", "w", "x", "y", "z">>

\* the alphabet of the program: all the letters, all the digits
FullAlphabet == [letters |-> Len(LowerLetters), digits |-> Len(Digits)]

\* the reduced alphabet: the first MaxSymbols letters and digits
ReducedAlphabet == [letters |-> MaxSymbols, digits |-> MaxSymbols]

\* lines 209-213: `chars` of generate_repeat_pattern_domains (no hyphen)
RepeatChars(lettersOnly, alpha) ==
    SubSeq(LowerLetters, 1, alpha.letters)
        \o (IF lettersOnly THEN <<>> ELSE SubSeq(Digits, 1, alpha.digits))

\* lines 163-167: `chars` of generate_domains (the hyphen comes last)
GenChars(lettersOnly, alpha) == RepeatChars(lettersOnly, alpha) \o <<"-">>

\* char::is_ascii_alphanumeric on the characters a candidate can hold
IsAsciiAlphanumeric(c) ==
    \/ \E i \in 1..Len(LowerLetters) : LowerLetters[i] = c
    \/ IsDigit(c)

\* str::contains("--")
ContainsHyphenPair(domain) ==
    \E i \in 1..(Len(domain) - 1) : domain[i] = "-" /\ domain[i + 1] = "-"

\* mutant: the trailing hyphen is not looked at
IsValidDomainNoTail(domain) ==
    /\ Len(domain) \in 1..4
    /\ ~(Head(domain) = "-" \/ ContainsHyphenPair(domain))
    /\ \A i \in 1..Len(domain) : IsAsciiAlphanumeric(domain[i]) \/ domain[i] = "-"

\* lines 115-123
is_valid_domain(domain) ==
    /\ Len(domain) \in 1..4
    /\ ~(domain[1] = "-" \/ domain[Len(domain)] = "-" \/ ContainsHyphenPair(domain))
    /\ \A i \in 1..Len(domain) : IsAsciiAlphanumeric(domain[i]) \/ domain[i] = "-"

\* mutant: the hyphen is not filtered out
Length1CharsUnfiltered(chars) == chars

\* lines 177-183: every character but the hyphen, as a one-character string
Length1Chars(chars) == SelectSeq(chars, LAMBDA c : c # "-")

\* mutant: no hyphen is ever appended to a non-empty string
ChildrenNoInnerHyphen(current, chars) ==
    LET kept == SelectSeq(chars, LAMBDA c : ~(current # <<>> /\ c = "-"))
    IN  [k \in 1..Len(kept) |-> Append(current, kept[k])]

\* lines 193-198: the strings pushed for `current`, in the order of `chars`
Children(current, chars) ==
    LET kept == SelectSeq(chars,
                    LAMBDA c : ~(current # <<>> /\ c = "-"
                                    /\ current[Len(current)] = "-"))
    IN  [k \in 1..Len(kept) |-> Append(current, kept[k])]

\* the k-th (c1, c2) with c1 # c2 of the nested loops of lines 222-224
\* (and 236-238) over n characters, as indices
PairAt(k, n) ==
    LET i == ((k - 1) \div (n - 1)) + 1
        r == ((k - 1) % (n - 1)) + 1
    IN  [c1 |-> i, c2 |-> IF r < i THEN r ELSE r + 1]

\* lines 217-219: four times the same character
AllSame(chars) == [k \in 1..Len(chars) |-> <<chars[k], chars[k], chars[k], chars[k]>>]

\* lines 226-229: the v-th string pushed for (c1, c2)
ThreeOnePattern(c1, c2, v) ==
    CASE v = 0 -> <<c1, c1, c1, c2>>
      [] v = 1 -> <<c1, c1, c2, c1>>
      [] v = 2 -> <<c1, c2, c1, c1>>
      [] OTHER -> <<c2, c1, c1, c1>>

\* mutant: the second arrangement repeats the mirror of the first
TwoTwoPatternMirrored(c1, c2, v) ==
    CASE v = 0 -> <<c1, c1, c2, c2>>
      [] v = 1 -> <<c2, c2, c1, c1>>
      [] OTHER -> <<c1, c2, c1, c2>>

\* lines 240-242: the v-th string pushed for (c1, c2)
TwoTwoPattern(c1, c2, v) ==
    CASE v = 0 -> <<c1, c1, c2, c2>>
      [] v = 1 -> <<c1, c2, c2, c1>>
      [] OTHER -> <<c1, c2, c1, c2>>

\* lines 222-233
ThreeOne(chars) ==
    LET n == Len(chars)
    IN  [m \in 1..(4 * n * (n - 1)) |->
            LET p == PairAt(((m - 1) \div 4) + 1, n)
            IN  ThreeOnePattern(chars[p.c1], chars[p.c2], (m - 1) % 4)]

\* lines 236-246
TwoTwo(chars) ==
    LET n == Len(chars)
    IN  [m \in 1..(3 * n * (n - 1)) |->
            LET p == PairAt(((m - 1) \div 3) + 1, n)
            IN  TwoTwoPattern(chars[p.c1], chars[p.c2], (m - 1) % 3)]

\* lines 208-249
generate_repeat_pattern_domains(lettersOnly, alpha) ==
    LET chars == RepeatChars(lettersOnly, alpha)
    IN  AllSame(chars) \o ThreeOne(chars) \o TwoTwo(chars)

\* line 334
MaxLength(fullScan) == IF fullScan THEN 4 ELSE 3

\* a generator is called directly, or run is entered (lines 331-335)
GenInit ==
    /\ workers = 1
    /\ domains = <<<<"a">>>>
    /\ permits = 1
    /\ main_pc = "spawn"
    /\ next_idx = 1
    /\ task_pc = [i \in 1..1 |-> "unspawned"]
    /\ peer = [i \in 1..1 |-> NoReply]
    /\ task_result = [i \in 1..1 |-> NoResult]
    /\ available_domains = EmptyBag
    /\ results = <<>>
    /\ available_file = NoFile
    /\ results_file = NoFile
    /\ completion_order = <<>>
    /\ code_in = 0
    /\ status_out = None
    /\ gen_entry \in {"run", "generate_domains", "generate_repeat_pattern_domains"}
    /\ letters_only \in BOOLEAN
    /\ full_scan \in (IF gen_entry = "run" THEN BOOLEAN ELSE {FALSE})
    /\ gen_length \in (IF gen_entry = "generate_domains" THEN 0..5
                       ELSE IF gen_entry = "run" THEN {1} ELSE {0})
    /\ alphabet \in (IF gen_entry = "run" \/ gen_length \in 2..4
                     THEN {ReducedAlphabet}
                     ELSE {ReducedAlphabet, FullAlphabet})
    /\ gen_stack = <<>>
    /\ gen_domains = <<>>
    /\ all_domains = <<>>
    /\ gen_pc = IF gen_entry = "run" THEN "run_loop" ELSE "call"

\* lines 335-337: the next length of the loop; generate_domains is called
RunCallGenerate ==
    /\ gen_pc = "run_loop"
    /\ gen_length <= MaxLength(full_scan)
    /\ gen_pc' = "call"
    /\ gen_domains' = <<>>
    /\ UNCHANGED <<scan_vars, call_vars, gen_entry, alphabet, full_scan,
                   letters_only, gen_length, gen_stack, all_domains>>

\* lines 177-183: length 1
GenerateLength1 ==
    /\ gen_pc = "call"
    /\ gen_entry \in {"run", "generate_domains"}
    /\ gen_length = 1
    /\ LET chars == Length1Chars(GenChars(letters_only, alphabet))
       IN  gen_domains' = [k \in 1..Len(chars) |-> <<chars[k]>>]
    /\ gen_pc' = "returned"
    /\ UNCHANGED <<scan_vars, call_vars, gen_entry, alphabet, full_scan,
                   letters_only, gen_length, gen_stack, all_domains>>

\* lines 184-185: lengths 2 to 4, the stack starts with the empty string
GenerateStart ==
    /\ gen_pc = "call"
    /\ gen_entry \in {"run", "generate_domains"}
    /\ gen_length \in 2..4
    /\ gen_stack' = <<<<>>>>
    /\ gen_domains' = <<>>
    /\ gen_pc' = "loop"
    /\ UNCHANGED <<scan_vars, call_vars, gen_entry, alphabet, full_scan,
                   letters_only, gen_length, all_domains>>

\* line 201: any other length, nothing is generated
GenerateOtherLength ==
    /\ gen_pc = "call"
    /\ gen_entry = "generate_domains"
    /\ gen_length \notin 1..4
    /\ gen_domains' = <<>>
    /\ gen_pc' = "returned"
    /\ UNCHANGED <<scan_vars, call_vars, gen_entry, alphabet, full_scan,
                   letters_only, gen_length, gen_stack, all_domains>>

\* lines 186-199: one iteration of the while loop, the top is popped
GenerateStep ==
    /\ gen_pc = "loop"
    /\ gen_stack # <<>>
    /\ LET current == gen_stack[Len(gen_stack)]
           rest    == SubSeq(gen_stack, 1, Len(gen_stack) - 1)
       IN  IF Len(current) = gen_length
           THEN /\ gen_domains' = IF is_valid_domain(current)
                                  THEN Append(gen_domains, current)
                                  ELSE gen_domains
                /\ gen_stack' = rest
           ELSE /\ gen_stack' =
                       rest \o Children(current, GenChars(letters_only, alphabet))
                /\ gen_domains' = gen_domains
    /\ UNCHANGED <<scan_vars, call_vars, gen_entry, alphabet, full_scan,
                   letters_only, gen_length, all_domains, gen_pc>>

\* lines 186, 204: the stack is empty, `domains` is returned
GenerateReturn ==
    /\ gen_pc = "loop"
    /\ gen_stack = <<>>
    /\ gen_pc' = "returned"
    /\ UNCHANGED <<scan_vars, call_vars, gen_entry, alphabet, full_scan,
                   letters_only, gen_length, gen_stack, gen_domains,
                   all_domains>>

\* line 337: all_domains.extend(...), then the next length
RunExtend ==
    /\ gen_pc = "returned"
    /\ gen_entry = "run"
    /\ all_domains' = all_domains \o gen_domains
    /\ gen_length' = gen_length + 1
    /\ gen_pc' = "run_loop"
    /\ UNCHANGED <<scan_vars, call_vars, gen_entry, alphabet, full_scan,
                   letters_only, gen_stack, gen_domains>>

\* mutant: the repeat patterns are added in full-scan mode too
RunFinishStreamAlways ==
    /\ gen_pc = "run_loop"
    /\ gen_length > MaxLength(full_scan)
    /\ all_domains' =
           all_domains \o generate_repeat_pattern_domains(letters_only, alphabet)
    /\ gen_pc' = "done"
    /\ UNCHANGED <<scan_vars, call_vars, gen_entry, alphabet, full_scan,
                   letters_only, gen_length, gen_stack, gen_domains>>

\* lines 340-346: the repeat patterns unless full_scan; the stream is
\* complete and goes to scan_domains
RunFinishStream ==
    /\ gen_pc = "run_loop"
    /\ gen_length > MaxLength(full_scan)
    /\ all_domains' =
           IF ~full_scan
           THEN all_domains \o generate_repeat_pattern_domains(letters_only, alphabet)
           ELSE all_domains
    /\ gen_pc' = "done"
    /\ UNCHANGED <<scan_vars, call_vars, gen_entry, alphabet, full_scan,
                   letters_only, gen_length, gen_stack, gen_domains>>

\* lines 208-249, called directly
CallRepeatPatterns ==
    /\ gen_pc = "call"
    /\ gen_entry = "generate_repeat_pattern_domains"
    /\ gen_domains' = generate_repeat_pattern_domains(letters_only, alphabet)
    /\ gen_pc' = "returned"
    /\ UNCHANGED <<scan_vars, call_vars, gen_entry, alphabet, full_scan,
                   letters_only, gen_length, gen_stack, all_domains>>

GenNext ==
    \/ RunCallGenerate
    \/ GenerateLength1
    \/ GenerateStart
    \/ GenerateOtherLength
    \/ GenerateStep
    \/ GenerateReturn
    \/ RunExtend
    \/ RunFinishStream
    \/ CallRepeatPatterns

GenSpec == GenInit /\ [][GenNext]_vars

\* the generators are sequential code that runs on
GenFairSpec == GenSpec /\ WF_vars(GenNext)

(***************************************************************************)
(* Properties.                                                             *)
(***************************************************************************)
\* scan_domains has returned Ok
ScanReturned == main_pc \in {"returned", "saved", "save_failed", "done"}

\* scan_domains is over: it returned, or the unwrap of line 290 panicked
ScanEnded == main_pc \notin {"spawn", "sleep", "join"}

\* the peer let the probe of task i fail
ProbeFailed(i) == peer[i].kind \in {"refused", "write_error", "read_error"}

\* the peer answered the probe of task i
ProbeReplied(i) == peer[i].kind \in {"coded", "text"}

Logged(r) == \E k \in 1..Len(results) : results[k] = r

SeqRange(q) == {q[k] : k \in 1..Len(q)}

\* the status table as the specification states it
TableStatus(code) ==
    IF code = 1 THEN Available
    ELSE IF code = 0 THEN Registered
    ELSE IF code = -95 THEN RateLimited
    ELSE Error

\* C1: in every state of a run with W >= 1 workers, the number of tasks
\* that hold a permit and are inside query_domain_check is at most W.
C1_InFlightAtMostWorkers ==
    Cardinality({i \in Tasks : InFlight(i)}) <= workers

\* C1 witness: the cap is reached and another spawned task waits for a permit
C1_CapSaturated ==
    /\ Cardinality({i \in Tasks : InFlight(i)}) = workers
    /\ \E j \in Tasks : task_pc[j] = "acquire"

\* C2: when the connection of one candidate is refused, scan_domains still
\* ends normally and the result of every candidate that was answered is in
\* the ResultLog.
C2_ConnectionFailureDoesNotAbortBatch ==
    (ScanEnded /\ \E i \in Tasks : peer[i] = Refused)
        => /\ main_pc # "panicked"
           /\ \A j \in Tasks : ProbeReplied(j) => Logged(task_result[j])

\* C3: a probe that fails (refused connection, transport error on the write
\* or the read) or is answered with a malformed or empty response ends, within
\* its task, in a DomainResult with status Error that the ResultLog holds
\* once scan_domains is over; the failure never leaves the task as a panic.
C3_ProbeFailureYieldsErrorResult ==
    \A i \in Tasks :
        /\ ProbeFailed(i) =>
               /\ task_pc[i] # "panicked"
               /\ task_result[i].status = Error
               /\ ScanEnded => Logged(task_result[i])
        /\ (peer[i].kind = "text" /\ ScanReturned) =>
               /\ task_result[i].status = Error
               /\ Logged(task_result[i])

\* C4: a probe whose peer accepted the connection and then neither replies
\* nor closes eventually finishes with a DomainResult of status Error.
C4_HungProbeEventuallyErrors ==
    \A i \in 1..MaxLen :
        (i \in Tasks /\ peer[i] = Hang)
            ~> (i \in Tasks /\ task_pc[i] = "finished"
                    /\ task_result[i].status = Error)

\* C5: at the end of a run in which every probe was answered with
\* "<code>:<message>", the AvailableSet is exactly the set of the domains
\* answered with code 1, the ResultLog has one entry per candidate, each
\* candidate has an entry whose status is the table image of its code, and
\* the two reports written hold that set and that log.
C5_EndToEnd ==
    (ScanReturned /\ \A i \in Tasks : peer[i].kind = "coded")
        => /\ BagToSet(available_domains) =
                  {FormatDomain(domains[i]) : i \in {j \in Tasks : peer[j].code = 1}}
           /\ Len(results) = Len(domains)
           /\ \A i \in Tasks :
                  \E k \in 1..Len(results) :
                      /\ results[k].domain = domains[i] \o <<".", "l", "i">>
                      /\ results[k].status = TableStatus(peer[i].code)
                      /\ results[k].reply_code = peer[i].code
           /\ main_pc = "done" =>
                  /\ SeqRange(available_file.content) =
                         {FormatDomain(domains[i]) : i \in {j \in Tasks : peer[j].code = 1}}
                  /\ results_file.content = results

\* C5 witness: a finished run over two candidates, answered 0 and 1
C5_RunWithRepliesDone ==
    /\ main_pc = "done"
    /\ Len(domains) = 2
    /\ \A i \in Tasks : peer[i].kind = "coded"
    /\ peer[1].code = 0
    /\ peer[2].code = 1

\* C6: when scan_domains has returned, the ResultLog holds exactly one
\* DomainResult per candidate of the stream, the one its task built.
C6_OneResultPerCandidate ==
    ScanReturned
        => /\ Len(results) = Len(domains)
           /\ \A i \in Tasks :
                  /\ results[i] = task_result[i]
                  /\ results[i].domain = domains[i] \o <<".", "l", "i">>

\* C6 witness: scan_domains returned from a run of two concurrent probes
C6_ReturnedAfterConcurrentRun ==
    /\ main_pc = "returned"
    /\ workers = 2
    /\ Len(domains) = 2

\* C7: when save_results reads the two collections, a domain is in the
\* AvailableSet if and only if the ResultLog holds a result for that domain
\* with status Available.
C7_AvailableIffLoggedAvailable ==
    main_pc = "returned"
        => \A d \in BagToSet(available_domains) \cup {r.domain : r \in SeqRange(results)}
                    \cup {FormatDomain(l) : l \in Labels} :
               BagIn(d, available_domains)
                   <=> \E k \in 1..Len(results) :
                           results[k].domain = d /\ results[k].status = Available

\* C7 witness: the snapshot is about to be read; one domain is available,
\* another candidate is not
C7_SnapshotWithAvailable ==
    /\ main_pc = "returned"
    /\ BagToSet(available_domains) # {}
    /\ \E k \in 1..Len(results) : results[k].status # Available

\* C8: the AvailableSet holds every domain at most once, and its size is the
\* number of distinct domains for which an Available result was recorded.
C8_InsertIdempotent ==
    /\ \A d \in BagToSet(available_domains) : CopiesIn(d, available_domains) = 1
    /\ BagCardinality(available_domains) =
           Cardinality({domains[i] \o <<".", "l", "i">> :
                           i \in {j \in Tasks : /\ task_result[j].status = Available
                                                /\ task_pc[j] \in {"report", "finished"}}})

\* C8 witness: two tasks recorded Available for the same domain
C8_TwoAvailableSameDomain ==
    \E i, j \in Tasks :
        /\ i # j
        /\ domains[i] = domains[j]
        /\ task_result[i].status = Available
        /\ task_result[j].status = Available
        /\ task_pc[i] \in {"report", "finished"}
        /\ task_pc[j] \in {"report", "finished"}

\* C9: from_reply_code returns a status for every code: Available for 1,
\* Registered for 0, RateLimited for -95, Error for every other integer.
C9_StatusTable ==
    status_out # None
        => /\ status_out \in DomainStatus
           /\ code_in = 1 => status_out = Available
           /\ code_in = 0 => status_out = Registered
           /\ code_in = -95 => status_out = RateLimited
           /\ code_in \notin {1, 0, -95} => status_out = Error

\* C9 witness: the call returned for a code outside the table
C9_OtherCodeMapped ==
    /\ code_in = 42
    /\ status_out = Error

\* a response text without the separator, answered to task i
NoSeparatorReply(i) ==
    /\ peer[i].kind = "text"
    /\ \A k \in 1..Len(peer[i].text) : peer[i].text[k] # ":"

\* C10 as stated: a response without ':' gives reply code -99, status Error
\* and a message equal to the whole response.
C10_MessageIsWholeResponse ==
    \A i \in Tasks :
        NoSeparatorReply(i)
            => /\ task_result[i].reply_code = -99
               /\ task_result[i].status = Error
               /\ task_result[i].message = peer[i].text

\* C10 amended: a response without ':' gives reply code -99, status Error and
\* a message equal to the response without its leading and trailing
\* whitespace.
C10_MessageIsTrimmedResponse ==
    \A i \in Tasks :
        NoSeparatorReply(i)
            => /\ task_result[i].reply_code = -99
               /\ task_result[i].status = Error
               /\ LET m == task_result[i].message
                      t == peer[i].text
                  IN  /\ \E a \in 0..Len(t) : \E b \in a..Len(t) :
                             /\ m = SubSeq(t, a + 1, b)
                             /\ \A k \in (1..a) \cup ((b + 1)..Len(t)) :
                                    t[k] \in {" ", "\n", "\t", "\r"}
                      /\ m # <<>> =>
                             /\ m[1] \notin {" ", "\n", "\t", "\r"}
                             /\ m[Len(m)] \notin {" ", "\n", "\t", "\r"}

\* C10 witness: a response without ':' that ends in a newline was parsed
C10_NewlineTerminatedGarbage ==
    \E i \in Tasks :
        /\ NoSeparatorReply(i)
        /\ peer[i].text # <<>>
        /\ peer[i].text[Len(peer[i].text)] = "\n"
        /\ task_result[i].status = Error

(***************************************************************************)
(* Properties of the candidate generation.                                 *)
(***************************************************************************)
\* generate_domains has returned
GenerateReturned ==
    gen_pc = "returned" /\ gen_entry \in {"run", "generate_domains"}

NoDuplicates(q) == Cardinality(SeqRange(q)) = Len(q)

\* the labels of length n over the characters S: no hyphen first or last, no
\* two hyphens in a row
Admissible(S, n) ==
    {s \in [1..n -> S] :
        /\ s[1] # "-"
        /\ s[n] # "-"
        /\ \A i \in 1..(n - 1) : ~(s[i] = "-" /\ s[i + 1] = "-")}

\* C11: for every length in 2..4 and either alphabet mode, every candidate
\* generate_domains returns has exactly that length, does not start with a
\* hyphen, does not end with one and holds no two hyphens in a row.
C11_GeneratedLabelsWellFormed ==
    (GenerateReturned /\ gen_length \in 2..4)
        => \A k \in 1..Len(gen_domains) :
               LET d == gen_domains[k]
               IN  /\ Len(d) = gen_length
                   /\ d[1] # "-"
                   /\ d[Len(d)] # "-"
                   /\ \A i \in 1..(Len(d) - 1) : ~(d[i] = "-" /\ d[i + 1] = "-")

\* C11 witness: a length-4 generation over letters, digits and hyphen
\* returned, with a candidate that holds a hyphen
C11_Length4WithHyphenReturned ==
    /\ GenerateReturned
    /\ gen_length = 4
    /\ ~letters_only
    /\ \E k \in 1..Len(gen_domains) : \E i \in 1..4 : gen_domains[k][i] = "-"

\* C12: for every length in 2..4 and either alphabet mode, the exploration
\* of generate_domains ends, and what it returns holds every admissible
\* label of that length over the alphabet with the hyphen exactly once.
C12_GenerationExhaustiveOnce ==
    /\ []((GenerateReturned /\ gen_length \in 2..4)
            => /\ SeqRange(gen_domains) =
                      Admissible(SeqRange(GenChars(letters_only, alphabet)),
                                 gen_length)
               /\ NoDuplicates(gen_domains))
    /\ ((gen_pc = "loop") ~> (gen_pc = "returned"))

\* C12 witness: a length-3 generation returned a non-empty list
C12_Length3Returned ==
    /\ GenerateReturned
    /\ gen_length = 3
    /\ gen_stack = <<>>
    /\ Len(gen_domains) > 0

\* C13: length-1 generation over the alphabet of the program returns the
\* characters of the alphabet without the hyphen, each once: 26 entries in
\* letters-only mode, 36 otherwise.
C13_Length1IsAlphabet ==
    (GenerateReturned /\ gen_length = 1 /\ alphabet = FullAlphabet)
        => /\ Len(gen_domains) = IF letters_only THEN 26 ELSE 36
           /\ NoDuplicates(gen_domains)
           /\ SeqRange(gen_domains) =
                  {<<c>> : c \in SeqRange(LowerLetters)
                                 \cup (IF letters_only THEN {} ELSE SeqRange(Digits))}
           /\ <<"-">> \notin SeqRange(gen_domains)

\* C13 witness: the letters-only length-1 generation over the whole alphabet
\* returned
C13_LettersOnlyLength1Returned ==
    /\ GenerateReturned
    /\ gen_length = 1
    /\ alphabet = FullAlphabet
    /\ letters_only
    /\ Len(gen_domains) > 0

\* generate_repeat_pattern_domains, called directly, has returned
RepeatReturned ==
    gen_pc = "returned" /\ gen_entry = "generate_repeat_pattern_domains"

\* C14: over an alphabet of N symbols, generate_repeat_pattern_domains
\* returns N + 4*N*(N-1) + 3*N*(N-1) strings of length 4, none of them twice.
C14_RepeatPatternCount ==
    RepeatReturned
        => LET N == Cardinality(SeqRange(RepeatChars(letters_only, alphabet)))
           IN  /\ Len(gen_domains) = N + 4 * N * (N - 1) + 3 * N * (N - 1)
               /\ \A k \in 1..Len(gen_domains) : Len(gen_domains[k]) = 4
               /\ NoDuplicates(gen_domains)

\* C14 witness: the repeat patterns over the 36 letters and digits
C14_RepeatOverFullAlphabet ==
    /\ RepeatReturned
    /\ alphabet = FullAlphabet
    /\ ~letters_only
    /\ Len(gen_domains) > 36

\* the strings of length 4 over S built from at most two distinct symbols:
\* the all-same, three-and-one and two-and-two classes
RepeatSet(S) == {s \in [1..4 -> S] : Cardinality({s[i] : i \in 1..4}) <= 2}

\* what the stream of a run has to hold
ExpectedStream ==
    LET chars == SeqRange(GenChars(letters_only, alphabet))
    IN  UNION {Admissible(chars, n) : n \in (IF full_scan THEN 1..4 ELSE 1..3)}
            \cup (IF full_scan THEN {} ELSE RepeatSet(chars \ {"-"}))

\* C15: the candidate stream of a run holds, in full-scan mode, the
\* exhaustive generation of the lengths 1 to 4 and nothing else and, in
\* default mode, the exhaustive generation of the lengths 1 to 3 followed by
\* the repeat patterns of length 4; no candidate occurs twice.
C15_RunStream ==
    (gen_pc = "done" /\ gen_entry = "run")
        => /\ SeqRange(all_domains) = ExpectedStream
           /\ NoDuplicates(all_domains)
           /\ \A k \in 1..(Len(all_domains) - 1) :
                  Len(all_domains[k]) <= Len(all_domains[k + 1])

\* C15 witness: the stream of a default-mode run is complete and ends with
\* a repeat pattern
C15_DefaultStreamBuilt ==
    /\ gen_pc = "done"
    /\ gen_entry = "run"
    /\ ~full_scan
    /\ all_domains # <<>>
    /\ Len(all_domains[Len(all_domains)]) = 4

(***************************************************************************)
(* Properties of the dispatch, the permits and the end of the scan.        *)
(***************************************************************************)
\* task i is spawned by this step
Spawned(i) == task_pc[i] = "unspawned" /\ task_pc'[i] # "unspawned"

\* the spawned tasks that have not completed
Outstanding == {i \in Tasks : task_pc[i] # "unspawned" /\ ~Completed(i)}

\* C16 as stated: a unit of work is spawned only while a slot is free, and
\* at any moment at most W spawned units of work have not completed.
C16_SpawnWaitsForSlot ==
    /\ [][\A i \in Tasks : Spawned(i) => permits > 0]_vars
    /\ [](Cardinality(Outstanding) <= workers)

\* C16 amended: the dispatch loop spawns the unit of work of a candidate
\* without taking a slot and without waiting for one; the unit of work takes
\* a slot itself, when one is free, before it starts its probe; at any moment
\* at most W units of work hold a slot.
C16_TaskAcquiresSlotItself ==
    /\ [][\A i \in Tasks :
              Spawned(i) => task_pc'[i] = "acquire" /\ permits' = permits]_vars
    /\ [][\A i \in Tasks :
              (task_pc[i] = "acquire" /\ task_pc'[i] # "acquire")
                  => /\ permits > 0
                     /\ permits' = permits - 1
                     /\ task_pc'[i] = "connect"]_vars
    /\ [](main_pc = "spawn" => ENABLED Spawn)
    /\ [](Cardinality({i \in Tasks : HoldsPermit(i)}) <= workers)

\* C16 witness: more spawned units of work are outstanding than there are
\* slots, one of them waiting for a slot
C16_MoreOutstandingThanSlots ==
    /\ Cardinality(Outstanding) > workers
    /\ permits = 0
    /\ \E i \in Tasks : task_pc[i] = "acquire"

\* C17: candidates are dispatched one at a time in stream order, and between
\* the dispatch of a candidate and the next dispatch the loop goes through
\* one delay wait, which depends neither on the permits nor on the tasks.
C17_SubmissionPacing ==
    /\ [][\A i \in Tasks :
              Spawned(i)
                  => /\ main_pc = "spawn"
                     /\ main_pc' = "sleep"
                     /\ i = next_idx
                     /\ \A j \in Tasks : j < i => task_pc[j] # "unspawned"
                     /\ \A j \in Tasks : j > i => task_pc'[j] = "unspawned"]_vars
    /\ [][(main_pc = "sleep" /\ main_pc' # "sleep")
              => /\ next_idx' = next_idx + 1
                 /\ main_pc' \in {"spawn", "join"}
                 /\ task_pc' = task_pc
                 /\ permits' = permits]_vars
    /\ [](main_pc = "sleep" => ENABLED Wake)

\* C17 witness: the second candidate has been dispatched although no probe
\* has completed and no slot is free
C17_DispatchedWhileSaturated ==
    /\ Len(domains) >= 2
    /\ main_pc = "sleep"
    /\ next_idx = 2
    /\ task_pc[2] = "acquire"
    /\ permits = 0
    /\ completion_order = <<>>

\* C18: scan_domains has returned only when the stream is exhausted and
\* every task has finished, and from then on the AvailableSet and the
\* ResultLog do not change.
C18_CompletionBarrier ==
    /\ [](ScanReturned
            => /\ next_idx > Len(domains)
               /\ \A i \in Tasks : task_pc[i] = "finished"
               /\ Len(completion_order) = Len(domains))
    /\ [][ScanReturned
              => /\ available_domains' = available_domains
                 /\ results' = results]_vars

\* C18 witness: the reports of a run over two candidates are written
C18_SavedAfterTwoTasks ==
    /\ main_pc = "saved"
    /\ Len(domains) = 2
    /\ results_file.written

\* C19: when scan_domains has returned, the domains of the ResultLog are in
\* the order of the candidate stream, whatever the order of completion.
C19_LogInDispatchOrder ==
    ScanReturned
        => [k \in 1..Len(results) |-> results[k].domain]
               = [k \in 1..Len(domains) |-> domains[k] \o <<".", "l", "i">>]

\* C19 witness: the second candidate completed before the first
C19_CompletedOutOfOrder ==
    /\ ScanReturned
    /\ Len(domains) = 2
    /\ domains[1] # domains[2]
    /\ completion_order = <<2, 1>>

\* C20: the free permits and the permits held by tasks add up to `workers`
\* in every state; a task that ends, with a result or by a failure, holds
\* none.
C20_PermitsConserved ==
    /\ permits \in 0..workers
    /\ permits + Cardinality({i \in Tasks : HoldsPermit(i)}) = workers
    /\ \A i \in Tasks : Completed(i) => ~HoldsPermit(i)

\* C20 witness: with one worker, a task holds the permit after the probe
\* of another task failed
C20_PermitReusedAfterFailure ==
    /\ workers = 1
    /\ \E i, j \in Tasks :
           /\ task_pc[i] = "panicked"
           /\ HoldsPermit(j)

====
